---- MODULE Spec2Model ----
(***************************************************************************)
(* Model of the go-eeprom device layer (package eeprom): the four data     *)
(* operations Read, WriteBytes, WritePages and Erase, the chunked bulk     *)
(* transfer loop transferN and the status readback verify.  One step of    *)
(* the model is either a public call up to its first bulk transfer, or one *)
(* iteration of the transferN loop together with all the code that runs    *)
(* until the next bulk transfer (or the return of the operation).          *)
(***************************************************************************)
EXTENDS Integers, Sequences, FiniteSets, TLC

(* ------------------------------------------------------------------ *)
(* Program constants                                                   *)
(* ------------------------------------------------------------------ *)
MaxBytes == 65536

endpointIN == 129

endpointOUT == 1

Endpoints == {endpointIN, endpointOUT}

(* ------------------------------------------------------------------ *)
(* Bounds and input sets of the model                                  *)
(* ------------------------------------------------------------------ *)
\* number of short (incomplete but successful) bulk transfers the
\* transport may deliver during one operation
MaxShort == 1

\* values libusb_get_max_packet_size reports for the two endpoints
PacketSizes ==
  { [e \in Endpoints |-> IF e = endpointIN THEN 512 ELSE 64],
    [e \in Endpoints |-> IF e = endpointIN THEN 64 ELSE 512] }

\* arguments given to SetPageSize
PageSizes == {0, 64, 128}

\* (start, len(data)) pairs given to Read, WriteBytes and WritePages
Args ==
  { <<0, 0>>, <<65535, 1>>, <<65535, 2>>, <<0, 256>>, <<3, 200>>,
    <<4660, 300>>, <<0, 65536>>, <<1, 65536>>, <<0, 65537>> }

\* return codes of libusb_bulk_transfer
BulkCodes == {"LIBUSB_SUCCESS", "LIBUSB_ERROR_TIMEOUT", "LIBUSB_ERROR_IO"}

(* ------------------------------------------------------------------ *)
(* State                                                               *)
(* ------------------------------------------------------------------ *)
VARIABLES
  maxPacket,  \* endpoint -> wMaxPacketSize reported by the transport
  pagesize,   \* Device.pagesize
  op,         \* operation in progress or last finished: "none","R","W","P","Z"
  start,      \* its start argument (uint16)
  dlen,       \* len(data) of its buffer (int)
  hdr,        \* b.Bytes(): the command frame built by the operation
  phase,      \* "idle", or the buffer transferN is moving: "header","payload","status"
  xf,         \* locals of the running transferN: endpoint, len, off, n
  expected,   \* argument of the running / last verify
  devStatus,  \* status word the device answers with
  stbuf,      \* the 2-byte buffer of verify
  result,     \* value returned by the last operation
  wire,       \* bulk transfers issued by the operation, in order (runs merged)
  hdrOut,     \* bytes of the command frame the transport has accepted
  calls,      \* number of bulk transfers issued per buffer
  lastReq,    \* endpoint, offset and length of the last bulk transfer
  lastRet,    \* return code and byte count of the last bulk transfer
  moved,      \* number of bytes moved per buffer
  shorts,     \* number of short transfers delivered per buffer
  verifies,   \* number of times verify was entered by the operation
  attached,   \* descriptors of the devices attached to the host, in list order
  handle,     \* Device.handle: "nil", "open", or "closed" (dangling)
  claimed,    \* the interface is claimed through the handle
  lop,        \* last discovery / lifecycle function called
  lret,       \* value it returned
  usbLog,     \* transport calls it made, in order
  walk,       \* locals of the running Walk: position, found, visits, device list
  mem,        \* device memory: which byte of the written buffer each address holds
  rbuf,       \* buffer of Read: which byte of the written buffer each index holds
  dev,        \* device side of the command in progress: opcode, start, stream position
  rt,         \* the erase / write / read sequence in progress
  cmd,        \* the command of the eeprom tool in progress: flags, file, position
  devlog      \* Device methods the command has called, in order

\* the data operations' part of the state
xvars == <<maxPacket, pagesize, op, start, dlen, hdr, phase, xf, expected,
           devStatus, stbuf, result, wire, hdrOut, calls, lastReq, lastRet,
           moved, shorts, verifies>>

\* the discovery and lifecycle part of the state
lvars == <<attached, handle, claimed, lop, lret, usbLog, walk>>

\* payload contents, on the device and in the caller's buffer
rvars == <<mem, rbuf, dev, rt>>

\* the eeprom tool
cvars == <<cmd, devlog>>

vars == <<xvars, lvars, rvars, cvars>>

(* ------------------------------------------------------------------ *)
(* Pure helpers                                                        *)
(* ------------------------------------------------------------------ *)
uint16(x) == x % 65536

\* binary.Write(&b, binary.LittleEndian, v) for a uint16
LittleEndian(v) == <<v % 256, v \div 256>>

\* variant: the status word decoded most significant byte first
ReadBigEndian(data) == 256 * data[1] + data[2]

\* binary.Read(bytes.NewReader(data), binary.LittleEndian, &status)
ReadLittleEndian(data) == data[1] + 256 * data[2]

Opcode(o) ==
  CASE o = "R" -> 82
    [] o = "W" -> 87
    [] o = "P" -> 80
    [] o = "Z" -> 90

\* var n = uint16(len(data))
n16(length) == uint16(length)

\* variant: the count field holds n instead of n-1
FrameCount(o, s, length) ==
  <<Opcode(o)>> \o LittleEndian(s) \o LittleEndian(n16(length))

\* b.WriteByte(opcode); binary.Write(start); binary.Write(n-1)
Frame(o, s, length) ==
  <<Opcode(o)>> \o LittleEndian(s) \o LittleEndian(uint16(n16(length) + 65535))

\* variant: Erase pads its command to the frame of the other operations
EraseFramePadded == <<Opcode("Z"), 0, 0, 0, 0>>

\* the command frame of Erase
EraseFrame == <<Opcode("Z")>>

\* variant: the capacity check is off by one
validateStrict(s, length) ==
  IF length = 0 THEN "no data"
  ELSE IF s + length >= MaxBytes THEN "too much data"
  ELSE "nil"

\* Device.validate
validate(s, length) ==
  IF length = 0 THEN "no data"
  ELSE IF s + length > MaxBytes THEN "too much data"
  ELSE "nil"

\* variant: the address of the last byte instead of the one after it
StatusLast(s, length) == uint16(s + n16(length) + 65535)

\* the argument of verify in Read, WriteBytes and WritePages: start + n
StatusAfter(s, length) == uint16(s + n16(length))

\* the argument of verify in each operation
StatusArg(o, s, length) == IF o = "Z" THEN 0 ELSE StatusAfter(s, length)

\* endpoint of the payload transfer of an operation
PayloadEndpoint(o) == IF o = "R" THEN endpointIN ELSE endpointOUT

\* variant: the page size is applied to every payload
PayloadChunkAll(o) == pagesize

\* chunk size argument of the payload transfer of an operation
PayloadChunk(o) == IF o = "P" THEN pagesize ELSE 0

\* variant: the payload is not moved
ContinueNoPayload(o, ph) ==
  CASE ph = "header" -> "status"
    [] ph = "payload" -> "status"
    [] ph = "status" -> "return"

\* what the operation does once a buffer has been moved completely
Continue(o, ph) ==
  CASE ph = "header" -> IF o = "Z" THEN "status" ELSE "payload"
    [] ph = "payload" -> "status"
    [] ph = "status" -> "return"

\* variant: a timeout is not treated as a failure
FailedNoTimeout(code) == code \notin {"LIBUSB_SUCCESS", "LIBUSB_ERROR_TIMEOUT"}

\* err != C.LIBUSB_SUCCESS
Failed(code) == code # "LIBUSB_SUCCESS"

\* variant: the chunk size given by the caller is ignored
transferNDefault(endpoint, length, n) ==
  [err |-> FALSE, ep |-> endpoint, len |-> length, off |-> 0,
   n |-> maxPacket[endpoint], given |-> n]

\* Device.transferN up to its loop: the loop's initial locals, or the
\* rejection of the chunk size
transferN(endpoint, length, n) ==
  LET m == maxPacket[endpoint] IN
  IF n = 0 THEN [err |-> FALSE, ep |-> endpoint, len |-> length, off |-> 0, n |-> m, given |-> n]
  ELSE IF n > m THEN [err |-> TRUE, ep |-> endpoint, len |-> length, off |-> 0, n |-> n, given |-> n]
  ELSE [err |-> FALSE, ep |-> endpoint, len |-> length, off |-> 0, n |-> n, given |-> n]

\* Device.transfer
transfer(endpoint, length) == transferN(endpoint, length, 0)

\* variant: the status readback is chunked by the page size
verifyTransferPaged == transferN(endpointIN, 2, pagesize)

\* the transfer of verify: d.transfer(endpointIN, data) with 2 bytes of data
verifyTransfer == transfer(endpointIN, 2)

\* if n > len { n = len }
Clamp(n, len) == IF n > len THEN len ELSE n

\* variant: while more than one request remains, the offset advances by the
\* bytes requested, so the rest of a short transfer is skipped
AdvanceRequested(x, req, k) ==
  [x EXCEPT !.n = req, !.len = @ - k,
            !.off = IF x.len > req THEN @ + req ELSE @ + k]

\* variant: the remaining length drops by the bytes requested
AdvanceLenRequested(x, req, k) == [x EXCEPT !.n = req, !.len = @ - req, !.off = @ + k]

\* len -= transferred; off += transferred (n stays clamped)
Advance(x, req, k) == [x EXCEPT !.n = req, !.len = @ - k, !.off = @ + k]

\* variant: any status at or beyond the expected one is accepted
StatusAtLeast(status, exp) == status >= exp

\* the comparison of verify
StatusOK(status, exp) == status = exp

NoXf == [err |-> FALSE, ep |-> endpointOUT, len |-> 0, off |-> 0, n |-> 0, given |-> 0]

NoReq == [ep |-> endpointOUT, buf |-> "none", off |-> 0, n |-> 0]

NoRet == [code |-> "LIBUSB_SUCCESS", transferred |-> 0]

NoCalls == [header |-> 0, payload |-> 0, status |-> 0]

Total(c) == c.header + c.payload + c.status

Ret(kind) == [kind |-> kind, code |-> "LIBUSB_SUCCESS", expected |-> 0, got |-> 0]

\* &libusbError{err}
libusbError(code) == [kind |-> "libusbError", code |-> code, expected |-> 0, got |-> 0]

\* fmt.Errorf("expected status %#x; got %#x", expected, status)
StatusError(exp, status) ==
  [kind |-> "status", code |-> "LIBUSB_SUCCESS", expected |-> exp, got |-> status]

(* ------------------------------------------------------------------ *)
(* The transport and the device                                        *)
(* ------------------------------------------------------------------ *)
\* byte counts of a successful bulk transfer of n bytes that is short
ShortAmounts(n) == {0, n - 1} \ {n}

\* outcomes of libusb_bulk_transfer for a request of n bytes
Outcomes(n) ==
  { [code |-> c, transferred |-> 0] : c \in BulkCodes \ {"LIBUSB_SUCCESS"} }
  \cup { [code |-> "LIBUSB_SUCCESS", transferred |-> n] }
  \cup { [code |-> "LIBUSB_SUCCESS", transferred |-> k] :
           k \in IF Total(shorts) < MaxShort THEN ShortAmounts(n) ELSE {} }

\* status words a device may answer with when exp is the expected one
StatusReplies(exp) == {exp, uint16(exp + 65535), 0, 1}

(* ------------------------------------------------------------------ *)
(* Initial state: an opened device, no operation issued                *)
(* ------------------------------------------------------------------ *)
DataInit ==
  /\ maxPacket \in PacketSizes
  /\ pagesize = 0
  /\ op = "none"
  /\ start = 0
  /\ dlen = 0
  /\ hdr = <<>>
  /\ phase = "idle"
  /\ xf = NoXf
  /\ expected = 0
  /\ devStatus = 0
  /\ stbuf = <<>>
  /\ result = Ret("none")
  /\ wire = <<>>
  /\ hdrOut = <<>>
  /\ calls = NoCalls
  /\ lastReq = NoReq
  /\ lastRet = NoRet
  /\ moved = NoCalls
  /\ shorts = NoCalls
  /\ verifies = 0

(* ------------------------------------------------------------------ *)
(* Operations                                                          *)
(* ------------------------------------------------------------------ *)
\* Device.SetPageSize
SetPageSize(p) ==
  /\ phase = "idle"
  /\ pagesize' = p
  /\ UNCHANGED <<maxPacket, op, start, dlen, hdr, phase, xf, expected,
                 devStatus, stbuf, result, wire, hdrOut, calls, lastReq,
                 lastRet, moved, shorts, verifies>>

\* entry of a data operation: build the frame, validate, start the header
\* transfer
Enter(o, s, length, frame, check) ==
  /\ phase = "idle"
  /\ op' = o
  /\ start' = s
  /\ dlen' = length
  /\ hdr' = frame
  /\ expected' = 0
  /\ devStatus' = 0
  /\ stbuf' = <<>>
  /\ wire' = <<>>
  /\ hdrOut' = <<>>
  /\ calls' = NoCalls
  /\ lastReq' = NoReq
  /\ lastRet' = NoRet
  /\ moved' = NoCalls
  /\ shorts' = NoCalls
  /\ verifies' = 0
  /\ IF check # "nil"
       THEN /\ result' = Ret(check)
            /\ phase' = "idle"
            /\ xf' = NoXf
       ELSE /\ result' = Ret("none")
            /\ phase' = "header"
            /\ xf' = transfer(endpointOUT, Len(frame))
  /\ UNCHANGED <<maxPacket, pagesize>>

\* Device.Read
Read(s, length) == Enter("R", s, length, Frame("R", s, length), validate(s, length))

\* Device.WriteBytes
WriteBytes(s, length) == Enter("W", s, length, Frame("W", s, length), validate(s, length))

\* Device.WritePages
WritePages(s, length) == Enter("P", s, length, Frame("P", s, length), validate(s, length))

\* Device.Erase
Erase == Enter("Z", 0, 0, EraseFrame, "nil")

\* bytes the device puts into the status buffer for a transfer of k bytes at off
StatusBytes(buf, off, k) ==
  [i \in 1..Len(buf) |->
     IF i > off /\ i <= off + k THEN LittleEndian(devStatus)[i] ELSE buf[i]]

\* one iteration of the loop of transferN, and whatever the operation does
\* after the loop until its next bulk transfer or its return
Bulk(out, wrap) ==
  /\ LET req == Clamp(xf.n, xf.len) IN
       LET k == out.transferred
           x1 == Advance(xf, req, k)
           done == ~Failed(out.code) /\ x1.len <= 0
           next == IF done THEN Continue(op, phase) ELSE "loop"
           sb == IF phase = "status" /\ ~Failed(out.code)
                   THEN StatusBytes(stbuf, xf.off, k) ELSE stbuf
           pay == transferN(PayloadEndpoint(op), dlen, PayloadChunk(op))
           exp == StatusArg(op, start, dlen)
           status == ReadLittleEndian(sb)
       IN
       /\ lastReq' = [ep |-> xf.ep, buf |-> phase, off |-> xf.off, n |-> req]
       /\ lastRet' = out
       /\ calls' = [calls EXCEPT ![phase] = IF wrap THEN (@ + 1) % 2 ELSE @ + 1]
       /\ wire' = IF wire # <<>> /\ wire[Len(wire)] = <<phase, xf.ep>>
                    THEN wire ELSE Append(wire, <<phase, xf.ep>>)
       /\ moved' = [moved EXCEPT ![phase] = @ + k]
       /\ shorts' = IF out.code = "LIBUSB_SUCCESS" /\ k < req /\ ~wrap
                      THEN [shorts EXCEPT ![phase] = @ + 1] ELSE shorts
       /\ hdrOut' = IF phase = "header"
                      THEN hdrOut \o SubSeq(hdr, xf.off + 1, xf.off + k)
                      ELSE hdrOut
       /\ IF Failed(out.code)
            THEN /\ result' = libusbError(out.code)
                 /\ phase' = "idle"
                 /\ xf' = xf
                 /\ UNCHANGED <<expected, devStatus, stbuf, verifies>>
          ELSE IF next = "loop"
            THEN /\ phase' = phase
                 /\ xf' = x1
                 /\ stbuf' = sb
                 /\ UNCHANGED <<result, expected, devStatus, verifies>>
          ELSE IF next = "payload"
            THEN /\ IF pay.err
                      THEN /\ result' = Ret("invalid packet size")
                           /\ phase' = "idle"
                      ELSE /\ result' = result
                           /\ phase' = "payload"
                 /\ xf' = pay
                 /\ UNCHANGED <<expected, devStatus, stbuf, verifies>>
          ELSE IF next = "status"
            THEN /\ expected' = exp
                 /\ stbuf' = <<255, 255>>
                 /\ verifies' = verifies + 1
                 /\ devStatus' \in StatusReplies(exp)
                 /\ xf' = verifyTransfer
                 /\ phase' = "status"
                 /\ UNCHANGED result
          ELSE /\ stbuf' = sb
               /\ xf' = x1
               /\ phase' = "idle"
               /\ result' = IF StatusOK(status, expected)
                              THEN Ret("nil") ELSE StatusError(expected, status)
               /\ UNCHANGED <<expected, devStatus, verifies>>
  /\ UNCHANGED <<maxPacket, pagesize, op, start, dlen, hdr>>

\* one iteration of the loop of transferN over a transport that delivers
\* all but a bounded number of requests in full
BulkTransfer ==
  /\ phase \in {"header", "payload", "status"}
  /\ \E out \in Outcomes(Clamp(xf.n, xf.len)) : Bulk(out, FALSE)

(* ------------------------------------------------------------------ *)
(* Discovery and lifecycle: First, Walk, Open, Close, Reset            *)
(* ------------------------------------------------------------------ *)
idVendor == 1240

idProduct == 62669

\* largest number of devices attached to the host
MaxDevices == 3

\* device descriptors seen on the bus
Descriptors ==
  { [idVendor |-> idVendor, idProduct |-> idProduct],
    [idVendor |-> idVendor, idProduct |-> 10],
    [idVendor |-> 1133, idProduct |-> idProduct] }

\* return codes of the libusb lifecycle calls
LifeCodes == {"LIBUSB_SUCCESS", "LIBUSB_ERROR_ACCESS", "LIBUSB_ERROR_NO_DEVICE"}

\* errors a visitor passed to Walk may return
VisitorErrors == {"visitor error 1", "visitor error 2"}

\* one call into the transport (or the visitor) and what it returned
Call(name, code) == [call |-> name, code |-> code, dev |-> 0]

CallOn(name, code, i) == [call |-> name, code |-> code, dev |-> i]

NoWalk == [active |-> FALSE, i |-> 0, found |-> 0, visits |-> <<>>, list |-> "none"]

\* variant: the vendor alone selects a device
MatchesVendor(desc) == desc.idVendor = idVendor

\* desc.idVendor == idVendor && desc.idProduct == idProduct
Matches(desc) == desc.idVendor = idVendor /\ desc.idProduct = idProduct

\* state of a handle after one transport call
HandleStep(h, c) ==
  IF c.call \in {"libusb_open", "libusb_open_device_with_vid_pid"}
       /\ c.code = "LIBUSB_SUCCESS" THEN "open"
  ELSE IF c.call = "libusb_close" THEN "closed"
  ELSE h

\* claim of the interface after one transport call
ClaimStep(cl, c) ==
  IF c.call = "libusb_claim_interface" /\ c.code = "LIBUSB_SUCCESS" THEN TRUE
  ELSE IF c.call = "libusb_release_interface" /\ c.code = "LIBUSB_SUCCESS" THEN FALSE
  ELSE IF c.call = "libusb_close" THEN FALSE
  ELSE cl

RECURSIVE HandleAfter(_, _)
HandleAfter(h, cs) ==
  IF cs = <<>> THEN h ELSE HandleAfter(HandleStep(h, Head(cs)), Tail(cs))

RECURSIVE ClaimedAfter(_, _)
ClaimedAfter(cl, cs) ==
  IF cs = <<>> THEN cl ELSE ClaimedAfter(ClaimStep(cl, Head(cs)), Tail(cs))

\* variant: a failed claim leaves the handle open
OpenCallsNoClose(first, oc, cc) ==
  IF oc # "LIBUSB_SUCCESS" THEN <<Call(first, oc)>>
  ELSE <<Call(first, oc), Call("libusb_claim_interface", cc)>>

\* transport calls of Device.Open and of First: open, claim, and close
\* when the claim fails
OpenCalls(first, oc, cc) ==
  IF oc # "LIBUSB_SUCCESS" THEN <<Call(first, oc)>>
  ELSE IF cc # "LIBUSB_SUCCESS"
    THEN <<Call(first, oc), Call("libusb_claim_interface", cc),
           Call("libusb_close", "LIBUSB_SUCCESS")>>
  ELSE <<Call(first, oc), Call("libusb_claim_interface", cc)>>

\* value returned by Device.Open
OpenRet(oc, cc) ==
  IF oc # "LIBUSB_SUCCESS" THEN libusbError(oc)
  ELSE IF cc # "LIBUSB_SUCCESS" THEN libusbError(cc)
  ELSE Ret("nil")

\* value returned by First
FirstRet(oc, cc) ==
  IF oc # "LIBUSB_SUCCESS" THEN Ret("no devices found")
  ELSE IF cc # "LIBUSB_SUCCESS" THEN libusbError(cc)
  ELSE Ret("nil")

\* variant: the handle is closed only when the release succeeded
CloseCallsEarly(rc) ==
  IF rc # "LIBUSB_SUCCESS" THEN <<Call("libusb_release_interface", rc)>>
  ELSE <<Call("libusb_release_interface", rc), Call("libusb_close", "LIBUSB_SUCCESS")>>

\* transport calls of Device.Close: release, then the deferred close
CloseCalls(rc) ==
  <<Call("libusb_release_interface", rc), Call("libusb_close", "LIBUSB_SUCCESS")>>

\* variant: no pause after a failed reset
ResetCallsNoPause(rc) ==
  IF rc # "LIBUSB_SUCCESS" THEN <<Call("libusb_reset_device", rc)>>
  ELSE <<Call("libusb_reset_device", rc), Call("time.Sleep", "LIBUSB_SUCCESS")>>

\* calls of Device.Reset: the reset, then the deferred pause
ResetCalls(rc) ==
  <<Call("libusb_reset_device", rc), Call("time.Sleep", "LIBUSB_SUCCESS")>>

\* value returned by Device.Close and Device.Reset
CodeRet(rc) == IF rc # "LIBUSB_SUCCESS" THEN libusbError(rc) ELSE Ret("nil")

\* a lifecycle function that runs to its return in one step
Lifecycle(name, cs, ret) ==
  /\ ~walk.active
  /\ lop' = name
  /\ usbLog' = cs
  /\ lret' = ret
  /\ handle' = HandleAfter(handle, cs)
  /\ claimed' = ClaimedAfter(claimed, cs)
  /\ UNCHANGED <<attached, walk>>

\* Device.Open
Open ==
  /\ handle # "open"
  /\ \E oc \in LifeCodes, cc \in LifeCodes :
       Lifecycle("Open", OpenCalls("libusb_open", oc, cc), OpenRet(oc, cc))

\* First: libusb_open_device_with_vid_pid gives a handle only when a
\* matching device is attached (and it can be opened)
First ==
  /\ handle # "open"
  /\ \E oc \in {"LIBUSB_SUCCESS", "NULL"}, cc \in LifeCodes :
       /\ oc = "LIBUSB_SUCCESS" => \E i \in 1..Len(attached) : Matches(attached[i])
       /\ Lifecycle("First", OpenCalls("libusb_open_device_with_vid_pid", oc, cc),
                    FirstRet(oc, cc))

\* Device.Close
Close ==
  /\ handle = "open"
  /\ \E rc \in LifeCodes : Lifecycle("Close", CloseCalls(rc), CodeRet(rc))

\* Device.Reset
Reset ==
  /\ handle = "open"
  /\ \E rc \in LifeCodes : Lifecycle("Reset", ResetCalls(rc), CodeRet(rc))

\* the device handed to the data operations: returned by a successful First
Opened ==
  /\ attached = <<[idVendor |-> idVendor, idProduct |-> idProduct]>>
  /\ handle = "open"
  /\ claimed = TRUE
  /\ lop = "First"
  /\ lret = Ret("nil")
  /\ usbLog = OpenCalls("libusb_open_device_with_vid_pid", "LIBUSB_SUCCESS", "LIBUSB_SUCCESS")
  /\ walk = NoWalk

\* variant: an error of the visitor does not end the enumeration
VisitorContinues(v) == FALSE

\* if err := fn(&Device{dev: dev}); err != nil { return err }
VisitorStops(v) == v # "nil"

\* the Device a visitor receives: &Device{dev: dev}
Visit(i) == [dev |-> i, handle |-> "nil", pagesize |-> 0]

\* value returned by Walk when its loop has run to the end
WalkRet(found) == IF found = 0 THEN Ret("no devices found") ELSE Ret("nil")

\* the deferred libusb_free_device_list
FreeList == Call("libusb_free_device_list", "LIBUSB_SUCCESS")

\* Walk up to its loop: get the device list; an empty list ends it at once
WalkStart ==
  /\ ~walk.active
  /\ lop' = "Walk"
  /\ \E lc \in LifeCodes :
       IF lc # "LIBUSB_SUCCESS"
         THEN /\ usbLog' = <<Call("libusb_get_device_list", lc)>>
              /\ lret' = libusbError(lc)
              /\ walk' = NoWalk
       ELSE IF attached = <<>>
         THEN /\ usbLog' = <<Call("libusb_get_device_list", lc), FreeList>>
              /\ lret' = WalkRet(0)
              /\ walk' = [NoWalk EXCEPT !.list = "freed"]
       ELSE /\ usbLog' = <<Call("libusb_get_device_list", lc)>>
            /\ lret' = Ret("none")
            /\ walk' = [active |-> TRUE, i |-> 1, found |-> 0,
                        visits |-> <<>>, list |-> "held"]
  /\ UNCHANGED <<attached, handle, claimed>>

\* one iteration of the loop of Walk, and its return when the iteration
\* ends the loop
WalkStep ==
  /\ walk.active
  /\ \E dc \in LifeCodes, v \in {"nil"} \cup VisitorErrors :
       LET i == walk.i
           desc == CallOn("libusb_get_device_descriptor", dc, i)
           match == dc = "LIBUSB_SUCCESS" /\ Matches(attached[i])
           fn == CallOn("fn", v, i)
           log1 == IF match THEN usbLog \o <<desc, fn>> ELSE usbLog \o <<desc>>
           vis1 == IF match THEN Append(walk.visits, Visit(i)) ELSE walk.visits
           found1 == IF match /\ ~VisitorStops(v) THEN walk.found + 1 ELSE walk.found
           over == [walk EXCEPT !.active = FALSE, !.visits = vis1,
                                !.found = found1, !.list = "freed"]
       IN
       /\ ~match => v = "nil"
       /\ IF dc # "LIBUSB_SUCCESS"
            THEN /\ usbLog' = Append(log1, FreeList)
                 /\ lret' = libusbError(dc)
                 /\ walk' = over
          ELSE IF match /\ VisitorStops(v)
            THEN /\ usbLog' = Append(log1, FreeList)
                 /\ lret' = [kind |-> "visitor", code |-> v, expected |-> 0, got |-> 0]
                 /\ walk' = over
          ELSE IF i = Len(attached)
            THEN /\ usbLog' = Append(log1, FreeList)
                 /\ lret' = WalkRet(found1)
                 /\ walk' = over
          ELSE /\ usbLog' = log1
               /\ lret' = lret
               /\ walk' = [walk EXCEPT !.i = i + 1, !.visits = vis1, !.found = found1]
  /\ UNCHANGED <<attached, handle, claimed, lop>>

(* ------------------------------------------------------------------ *)
(* Specification of discovery and lifecycle                            *)
(* ------------------------------------------------------------------ *)
AttachedLists ==
  UNION { [1..n -> Descriptors] : n \in 0..MaxDevices }

LifeInit ==
  /\ attached \in AttachedLists
  /\ handle = "nil"
  /\ claimed = FALSE
  /\ lop = "none"
  /\ lret = Ret("none")
  /\ usbLog = <<>>
  /\ walk = NoWalk

\* nothing written, nothing read, no round trip in progress
NoDev == [opc |-> 0, start |-> 0, pos |-> 0]

NoRT == [step |-> 0, A |-> 0, L |-> 0, path |-> "none"]

NoContents ==
  /\ mem = <<>>
  /\ rbuf = <<>>
  /\ dev = NoDev
  /\ rt = NoRT

\* no command of the tool in progress
NoVerdict == [kind |-> "none", index |-> 0, err |-> "none"]

NoCmd == [name |-> "none", pc |-> "none", start |-> 0, flag |-> 0, count |-> 0,
          pagesize |-> 0, file |-> <<>>, data |-> <<>>, ret |-> NoVerdict]

NoCommand ==
  /\ cmd = NoCmd
  /\ devlog = <<>>


\* the data operations' part of the state while no data operation runs
DataIdle ==
  /\ maxPacket = [e \in Endpoints |-> 64]
  /\ pagesize = 0
  /\ op = "none"
  /\ start = 0
  /\ dlen = 0
  /\ hdr = <<>>
  /\ phase = "idle"
  /\ xf = NoXf
  /\ expected = 0
  /\ devStatus = 0
  /\ stbuf = <<>>
  /\ result = Ret("none")
  /\ wire = <<>>
  /\ hdrOut = <<>>
  /\ calls = NoCalls
  /\ lastReq = NoReq
  /\ lastRet = NoRet
  /\ moved = NoCalls
  /\ shorts = NoCalls
  /\ verifies = 0

InitLife == DataIdle /\ LifeInit /\ NoContents /\ NoCommand

NextLife ==
  \/ Open /\ UNCHANGED <<xvars, rvars, cvars>>
  \/ First /\ UNCHANGED <<xvars, rvars, cvars>>
  \/ Close /\ UNCHANGED <<xvars, rvars, cvars>>
  \/ Reset /\ UNCHANGED <<xvars, rvars, cvars>>
  \/ WalkStart /\ UNCHANGED <<xvars, rvars, cvars>>
  \/ WalkStep /\ UNCHANGED <<xvars, rvars, cvars>>

SpecLife == InitLife /\ [][NextLife]_vars


(* ------------------------------------------------------------------ *)
(* Specification of the data operations on an opened device            *)
(* ------------------------------------------------------------------ *)
Init == DataInit /\ Opened /\ NoContents /\ NoCommand

Next ==
  \/ \E p \in PageSizes : SetPageSize(p) /\ UNCHANGED <<lvars, rvars, cvars>>
  \/ \E a \in Args : Read(a[1], a[2]) /\ UNCHANGED <<lvars, rvars, cvars>>
  \/ \E a \in Args : WriteBytes(a[1], a[2]) /\ UNCHANGED <<lvars, rvars, cvars>>
  \/ \E a \in Args : WritePages(a[1], a[2]) /\ UNCHANGED <<lvars, rvars, cvars>>
  \/ Erase /\ UNCHANGED <<lvars, rvars, cvars>>
  \/ BulkTransfer /\ UNCHANGED <<lvars, rvars, cvars>>

Spec == Init /\ [][Next]_vars

(* ------------------------------------------------------------------ *)
(* The transfer loop over a transport that may always come up short    *)
(* ------------------------------------------------------------------ *)
\* byte counts of a successful bulk transfer of n bytes that is short
LoopAmounts(n) == {0, 1, n - 1} \cap 0..(n - 1)

\* outcomes of libusb_bulk_transfer for a request of n bytes: every call
\* returns, with an error, in full, or short, without any limit on how often
LoopOutcomes(n) ==
  { [code |-> c, transferred |-> 0] : c \in BulkCodes \ {"LIBUSB_SUCCESS"} }
  \cup { [code |-> "LIBUSB_SUCCESS", transferred |-> n] }
  \cup { [code |-> "LIBUSB_SUCCESS", transferred |-> k] : k \in LoopAmounts(n) }

\* (start, length) pairs of the operations
LoopArgs == {<<0, 0>>, <<65535, 1>>, <<0, 256>>, <<3, 200>>}

\* one iteration of the loop of transferN
LoopBulk ==
  /\ phase \in {"header", "payload", "status"}
  /\ \E out \in LoopOutcomes(Clamp(xf.n, xf.len)) : Bulk(out, TRUE)
  /\ UNCHANGED <<lvars, rvars, cvars>>

NextLoop ==
  \/ \E p \in PageSizes : SetPageSize(p) /\ UNCHANGED <<lvars, rvars, cvars>>
  \/ \E a \in LoopArgs : Read(a[1], a[2]) /\ UNCHANGED <<lvars, rvars, cvars>>
  \/ \E a \in LoopArgs : WriteBytes(a[1], a[2]) /\ UNCHANGED <<lvars, rvars, cvars>>
  \/ \E a \in LoopArgs : WritePages(a[1], a[2]) /\ UNCHANGED <<lvars, rvars, cvars>>
  \/ Erase /\ UNCHANGED <<lvars, rvars, cvars>>
  \/ LoopBulk

\* the loop keeps calling the transport, and every call returns
SpecLoop == Init /\ [][NextLoop]_vars /\ WF_vars(LoopBulk)

(* ------------------------------------------------------------------ *)
(* Any sequence of public calls on one Device                          *)
(* ------------------------------------------------------------------ *)
\* a Device for an attached programmer that has not been opened
UseInit ==
  /\ attached = <<[idVendor |-> idVendor, idProduct |-> idProduct]>>
  /\ handle = "nil"
  /\ claimed = FALSE
  /\ lop = "none"
  /\ lret = Ret("none")
  /\ usbLog = <<>>
  /\ walk = NoWalk

\* (start, length) pairs of the operations
UseArgs == {<<0, 0>>, <<65535, 1>>, <<0, 256>>}

\* Device.Open and First, between two data operations
UseOpen == phase = "idle" /\ (Open \/ First) /\ UNCHANGED <<xvars, rvars, cvars>>

\* Device.Close as written: d.handle is passed on whatever its state; on a
\* handle that is not open the outcome of the calls is not defined
UseClose ==
  /\ phase = "idle"
  /\ \E rc \in LifeCodes : Lifecycle("Close", CloseCalls(rc), CodeRet(rc))
  /\ UNCHANGED <<xvars, rvars, cvars>>

\* Device.Reset as written: d.handle is passed on whatever its state
UseReset ==
  /\ phase = "idle"
  /\ \E rc \in LifeCodes : Lifecycle("Reset", ResetCalls(rc), CodeRet(rc))
  /\ UNCHANGED <<xvars, rvars, cvars>>

\* the data operations as written: no test of d.handle before the transfers
UseData ==
  /\ \/ \E a \in UseArgs : Read(a[1], a[2])
     \/ \E a \in UseArgs : WriteBytes(a[1], a[2])
     \/ \E a \in UseArgs : WritePages(a[1], a[2])
     \/ Erase
  /\ UNCHANGED <<lvars, rvars, cvars>>

\* a bulk transfer on d.handle, whatever its state
UseBulk == BulkTransfer /\ UNCHANGED <<lvars, rvars, cvars>>

InitUse == DataInit /\ UseInit /\ NoContents /\ NoCommand

NextUse ==
  \/ UseOpen
  \/ UseClose
  \/ UseReset
  \/ UseData
  \/ UseBulk

SpecUse == InitUse /\ [][NextUse]_vars

(* ------------------------------------------------------------------ *)
(* Payload contents: a device that stores what it is sent              *)
(* ------------------------------------------------------------------ *)
\* Contents are kept as runs: [at |-> a, src |-> j, len |-> l] says that
\* positions a .. a+l-1 hold bytes j .. j+l-1 of the buffer B that was
\* written; src = -1 marks bytes that never came from B.
Run(a, j, l) == [at |-> a, src |-> j, len |-> l]

\* append a run, merging it into the last one when it continues it
AddRun(runs, r) ==
  IF r.len = 0 THEN runs
  ELSE IF runs = <<>> THEN <<r>>
  ELSE LET last == runs[Len(runs)] IN
       IF last.at + last.len = r.at
            /\ (IF last.src = -1 THEN r.src = -1
                ELSE r.src # -1 /\ last.src + last.len = r.src)
         THEN [runs EXCEPT ![Len(runs)] = [last EXCEPT !.len = @ + r.len]]
         ELSE Append(runs, r)

\* the runs of memory that hold address a
Holding(a) == { i \in DOMAIN mem : mem[i].at <= a /\ a < mem[i].at + mem[i].len }

\* the bytes the device sends for k bytes from address a, stored into the
\* caller's buffer from index idx on
RECURSIVE Fill(_, _, _, _)
Fill(rb, idx, a, k) ==
  IF k <= 0 THEN rb
  ELSE IF Holding(a) # {}
    THEN LET r == mem[CHOOSE i \in Holding(a) : TRUE]
             l == IF r.at + r.len - a < k THEN r.at + r.len - a ELSE k
         IN Fill(AddRun(rb, Run(idx, r.src + (a - r.at), l)), idx + l, a + l, k - l)
  ELSE Fill(AddRun(rb, Run(idx, -1, 1)), idx + 1, a + 1, k - 1)

\* what one bulk transfer does on the device and in the caller's buffer:
\* the device takes its command from the header, stores the bytes of an OUT
\* payload at start + position, and answers an IN payload from there
Contents ==
  LET k == lastRet'.transferred
      off == lastReq'.off
      a == (dev.start + dev.pos) % MaxBytes
  IN
  IF lastReq'.buf = "header"
    THEN /\ rbuf' = rbuf
         /\ IF k > 0 /\ Len(hdrOut') = Len(hdr)
              THEN /\ dev' = [opc |-> hdrOut'[1],
                             start |-> IF Len(hdrOut') >= 3
                                         THEN hdrOut'[2] + 256 * hdrOut'[3] ELSE 0,
                             pos |-> 0]
                   /\ mem' = IF hdrOut'[1] = Opcode("Z") THEN <<>> ELSE mem
              ELSE UNCHANGED <<dev, mem>>
  ELSE IF lastReq'.buf = "payload" /\ lastReq'.ep = endpointOUT
    THEN /\ mem' = AddRun(mem, Run(a, off, k))
         /\ dev' = [dev EXCEPT !.pos = @ + k]
         /\ rbuf' = rbuf
  ELSE IF lastReq'.buf = "payload"
    THEN /\ rbuf' = Fill(rbuf, off, a, k)
         /\ dev' = [dev EXCEPT !.pos = @ + k]
         /\ mem' = mem
  ELSE UNCHANGED <<mem, rbuf, dev>>

\* valid (A, len(B)) pairs of the round trip
RoundTrips == { a \in Args : validate(a[1], a[2]) = "nil" }

\* d.Erase() of the round trip
RTErase ==
  /\ rt.step = 0
  /\ Erase
  /\ rt' = [rt EXCEPT !.step = 1]
  /\ UNCHANGED <<mem, rbuf, dev>>

\* test.cmd(d, A, B): WriteBytes or WritePages
RTWrite(a, path) ==
  /\ rt.step = 1 /\ result.kind = "nil"
  /\ IF path = "W" THEN WriteBytes(a[1], a[2]) ELSE WritePages(a[1], a[2])
  /\ rt' = [step |-> 2, A |-> a[1], L |-> a[2], path |-> path]
  /\ UNCHANGED <<mem, rbuf, dev>>

\* d.Read(A, rbuf) with a fresh buffer of len(B) bytes
RTRead ==
  /\ rt.step = 2 /\ result.kind = "nil"
  /\ Read(rt.A, rt.L)
  /\ rt' = [rt EXCEPT !.step = 3]
  /\ rbuf' = <<>>
  /\ UNCHANGED <<mem, dev>>

\* a bulk transfer of the round trip
RTBulk ==
  /\ BulkTransfer
  /\ Contents
  /\ UNCHANGED rt

\* SetPageSize before the round trip
RTSetPageSize(p) ==
  /\ rt.step = 0
  /\ SetPageSize(p)
  /\ UNCHANGED rvars

NextRT ==
  \/ \E p \in PageSizes : RTSetPageSize(p) /\ UNCHANGED <<lvars, cvars>>
  \/ RTErase /\ UNCHANGED <<lvars, cvars>>
  \/ \E a \in RoundTrips, path \in {"W", "P"} : RTWrite(a, path) /\ UNCHANGED <<lvars, cvars>>
  \/ RTRead /\ UNCHANGED <<lvars, cvars>>
  \/ RTBulk /\ UNCHANGED <<lvars, cvars>>

SpecRT == Init /\ [][NextRT]_vars

(* ------------------------------------------------------------------ *)
(* The eeprom tool: dump, verify, write                                *)
(* ------------------------------------------------------------------ *)
\* longest file given to verify and write
MaxFile == 2

FileBytes == {0, 255}

\* contents of n bytes
Contents_(n) == [1..n -> FileBytes]

Files == UNION { Contents_(n) : n \in 0..MaxFile }

\* values of the -start, -count and -pagesize flags
StartFlags == {0, 65535, 65536}

CountFlags == {-1, 0, 1, 2}

PagesizeFlags == {0, 64}

\* what a command returns: nil, the error of the data operation, a mismatch
\* at an index, an error of the output file, or a panic of the runtime
Verdict(kind, index) == [kind |-> kind, index |-> index, err |-> "none"]

Error(res) == [kind |-> "error", index |-> 0, err |-> res.kind]

\* if verifyCount == 0 || verifyCount > len(file) { verifyCount = len(file) }
CountOrLen(c, length) == IF c = 0 \/ c > length THEN length ELSE c

\* for i, b := range file { if data[i] != b { return mismatch at i } }
Compare(file, data) ==
  LET bad == { i \in 1..Len(file) : i > Len(data) \/ data[i] # file[i] } IN
  IF bad = {} THEN Verdict("nil", 0)
  ELSE LET i == CHOOSE j \in bad : \A m \in bad : j <= m IN
       IF i > Len(data) THEN Verdict("panic", i - 1) ELSE Verdict("mismatch", i - 1)

\* variant: the device is closed without a reset
ReturnCallsNoReset(err) == <<"Close">>

\* if err != nil { d.Reset() }, then the deferred d.Close()
ReturnCalls(err) == IF err THEN <<"Reset", "Close">> ELSE <<"Close">>

\* transport calls behind the Device methods of a return
RECURSIVE UsbCalls(_, _, _)
UsbCalls(names, r1, r2) ==
  IF names = <<>> THEN <<>>
  ELSE (IF Head(names) = "Reset" THEN ResetCalls(r1) ELSE CloseCalls(r2))
         \o UsbCalls(Tail(names), r1, r2)

\* return of command c with value ret: Reset after an error, deferred Close
Finish(c, ret, err) ==
  \E r1 \in IF err THEN LifeCodes ELSE {"LIBUSB_SUCCESS"}, r2 \in LifeCodes :
    LET cs == UsbCalls(ReturnCalls(err), r1, r2) IN
    /\ cmd' = [c EXCEPT !.pc = "done", !.ret = ret]
    /\ devlog' = devlog \o ReturnCalls(err)
    /\ lop' = "Close"
    /\ lret' = CodeRet(r2)
    /\ usbLog' = cs
    /\ handle' = HandleAfter(handle, cs)
    /\ claimed' = ClaimedAfter(claimed, cs)
    /\ UNCHANGED <<attached, walk>>

\* a panic before the data operation: only the deferred Close runs
Panic(c) ==
  /\ Finish(c, Verdict("panic", 0), FALSE)
  /\ UNCHANGED xvars

\* the command has called its data operation
Called(c, name) ==
  /\ cmd' = [c EXCEPT !.pc = "op"]
  /\ devlog' = Append(devlog, name)
  /\ UNCHANGED lvars

\* dump: d.Read(uint16(dumpStart), make([]byte, dumpCount))
dump(s, c) ==
  LET n == IF c = 0 THEN MaxBytes - s ELSE c
      this == [NoCmd EXCEPT !.name = "dump", !.start = s, !.flag = c, !.count = n]
  IN
  /\ cmd.pc = "none"
  /\ IF n < 0 THEN Panic(this)
     ELSE Read(uint16(s), n) /\ Called(this, "Read")

\* verify: d.Read(uint16(verifyStart), make([]byte, verifyCount))
verify(s, c, file) ==
  LET n == CountOrLen(c, Len(file))
      this == [NoCmd EXCEPT !.name = "verify", !.start = s, !.flag = c,
                            !.count = n, !.file = file]
  IN
  /\ cmd.pc = "none"
  /\ IF n < 0 THEN Panic(this)
     ELSE Read(uint16(s), n) /\ Called(this, "Read")

\* write: d.SetPageSize(writePagesize) when positive, else d.WriteBytes
write(s, c, ps, file) ==
  LET n == CountOrLen(c, Len(file))
      this == [NoCmd EXCEPT !.name = "write", !.start = s, !.flag = c,
                            !.count = n, !.pagesize = ps, !.file = file]
  IN
  /\ cmd.pc = "none"
  /\ IF ps > 0
       THEN /\ SetPageSize(ps)
            /\ cmd' = [this EXCEPT !.pc = "pagesize"]
            /\ devlog' = Append(devlog, "SetPageSize")
            /\ UNCHANGED lvars
     ELSE IF n < 0 THEN Panic(this)
     ELSE WriteBytes(uint16(s), n) /\ Called(this, "WriteBytes")

\* write: d.WritePages(uint16(writeStart), data[:writeCount])
writePages ==
  /\ cmd.pc = "pagesize"
  /\ IF cmd.count < 0 THEN Panic(cmd)
     ELSE WritePages(uint16(cmd.start), cmd.count) /\ Called(cmd, "WritePages")

\* a bulk transfer of the data operation of the command
CmdBulk ==
  /\ cmd.pc = "op"
  /\ BulkTransfer
  /\ UNCHANGED <<lvars, cvars>>

\* the data operation has returned: the rest of the command
Return ==
  /\ cmd.pc = "op" /\ phase = "idle"
  /\ IF result.kind # "nil" THEN Finish(cmd, Error(result), TRUE)
     ELSE IF cmd.name = "dump"
       THEN \E k \in {"nil", "write error"} : Finish(cmd, Verdict(k, 0), FALSE)
     ELSE IF cmd.name = "verify"
       THEN \E data \in Contents_(cmd.count) :
              Finish([cmd EXCEPT !.data = data], Compare(cmd.file, data), FALSE)
     ELSE Finish(cmd, Verdict("nil", 0), FALSE)
  /\ UNCHANGED xvars

NextCmd ==
  \/ \E s \in StartFlags, c \in CountFlags : dump(s, c) /\ UNCHANGED rvars
  \/ \E s \in StartFlags, c \in CountFlags, file \in Files :
       verify(s, c, file) /\ UNCHANGED rvars
  \/ \E s \in StartFlags, c \in CountFlags, ps \in PagesizeFlags, file \in Files :
       write(s, c, ps, file) /\ UNCHANGED rvars
  \/ writePages /\ UNCHANGED rvars
  \/ CmdBulk /\ UNCHANGED rvars
  \/ Return /\ UNCHANGED rvars

SpecCmd == Init /\ [][NextCmd]_vars


(* ------------------------------------------------------------------ *)
(* Properties                                                          *)
(* ------------------------------------------------------------------ *)
DataOp == op \in {"R", "W", "P"}

Returned == op # "none" /\ phase = "idle"

ValidationErrors == {"no data", "too much data"}

\* the header buffer has been moved completely
HeaderOver ==
  \/ phase \in {"payload", "status"}
  \/ calls.payload > 0
  \/ calls.status > 0
  \/ result.kind \in {"nil", "status", "invalid packet size"}

\* the frame the protocol prescribes for Read, WriteBytes and WritePages
WireFrame ==
  << CASE op = "R" -> 82 [] op = "W" -> 87 [] op = "P" -> 80 [] OTHER -> 0,
     start % 256, start \div 256, (dlen - 1) % 256, (dlen - 1) \div 256 >>

IsPrefix(a, b) == Len(a) <= Len(b) /\ a = SubSeq(b, 1, Len(a))

\* C1: Read, WriteBytes and WritePages return a validation error exactly
\* when the buffer is empty or start + len(buffer) > 65536, and then no
\* bulk transfer has been issued.
C1_Validation ==
  DataOp =>
    /\ (result.kind \in ValidationErrors) <=> (dlen = 0 \/ start + dlen > 65536)
    /\ (dlen = 0 \/ start + dlen > 65536) =>
         /\ Returned
         /\ Total(calls) = 0
         /\ wire = <<>>
         /\ hdrOut = <<>>

C1_Witness ==
  /\ op = "W" /\ Returned
  /\ start + dlen = 65537
  /\ result.kind = "too much data"

\* C2: in Read, WriteBytes and WritePages the bulk transfers go header
\* (OUT), then payload (IN for Read, OUT otherwise), then status (IN); the
\* payload starts only after the whole header, the status only after the
\* whole payload, and verify is entered exactly once by an operation that
\* meets no transport error.
C2_Order ==
  DataOp =>
    /\ IsPrefix(wire, << <<"header", endpointOUT>>,
                         <<"payload", IF op = "R" THEN endpointIN ELSE endpointOUT>>,
                         <<"status", endpointIN>> >>)
    /\ calls.payload > 0 => moved.header = 5
    /\ calls.status > 0 => moved.payload = dlen
    /\ verifies > 0 => moved.payload = dlen
    /\ verifies <= 1
    /\ result.kind \in {"nil", "status"} =>
         /\ Len(wire) = 3
         /\ verifies = 1
         /\ moved.status = 2

C2_Witness ==
  /\ op = "R" /\ Returned
  /\ result.kind = "nil"
  /\ calls.header = 2
  /\ calls.payload > 1

\* C3: for valid arguments the header of Read, WriteBytes and WritePages
\* is the opcode, start as 16-bit little-endian and len(buffer) - 1 as
\* 16-bit little-endian, 5 bytes in all, also for len(buffer) = 65536.
C3_Header ==
  (DataOp /\ dlen >= 1 /\ dlen <= 65536 /\ start + dlen <= 65536) =>
    /\ IsPrefix(hdrOut, WireFrame)
    /\ HeaderOver => hdrOut = WireFrame

C3_Witness ==
  /\ op = "W" /\ dlen = 65536
  /\ phase = "payload"
  /\ hdrOut = <<87, 0, 0, 255, 255>>

\* C4: when all transfers of Read, WriteBytes or WritePages succeed, the
\* operation returns nil exactly when the status word the device sent
\* equals the expected value, and otherwise a status error holding the
\* expected and the observed value.
C4_Status ==
  (DataOp /\ Returned /\ moved.status = 2) =>
    /\ result.kind = "nil" <=> devStatus = expected
    /\ devStatus # expected =>
         result = [kind |-> "status", code |-> "LIBUSB_SUCCESS",
                   expected |-> expected, got |-> devStatus]

C4_Witness ==
  /\ DataOp /\ Returned
  /\ start + dlen = 256
  /\ result.kind = "status"
  /\ result.expected = 256
  /\ result.got = 255

\* C5 (as stated): the status value required equals start + len(buffer)
\* for all valid inputs, also when start + len(buffer) = 65536.
C5_Original ==
  (DataOp /\ verifies > 0) => expected = start + dlen

\* C5 (amended): the status value required equals start + len(buffer)
\* reduced modulo 65536: start + len(buffer) below 65536, and 0 when
\* start + len(buffer) = 65536.
C5_Expected ==
  (DataOp /\ verifies > 0) =>
    /\ expected = (start + dlen) % 65536
    /\ start + dlen = 65536 => expected = 0

C5_Witness ==
  /\ op = "P" /\ verifies = 1
  /\ start = 0 /\ dlen = 65536
  /\ expected = 0
  /\ result.kind = "nil"

\* C6: Erase validates nothing and moves no payload: command on OUT,
\* then the status readback with expected value 0; it returns nil exactly
\* when the device reports 0, and a report of 1 gives a status error with
\* expected 0 and observed 1.
C6_Erase ==
  op = "Z" =>
    /\ result.kind \notin ValidationErrors \cup {"invalid packet size"}
    /\ calls.payload = 0
    /\ IsPrefix(wire, << <<"header", endpointOUT>>, <<"status", endpointIN>> >>)
    /\ verifies > 0 => expected = 0
    /\ (Returned /\ moved.status = 2) =>
         /\ result.kind = "nil" <=> devStatus = 0
         /\ devStatus = 1 =>
              result = [kind |-> "status", code |-> "LIBUSB_SUCCESS",
                        expected |-> 0, got |-> 1]

C6_Witness ==
  /\ op = "Z" /\ Returned
  /\ result.kind = "status"
  /\ result.expected = 0
  /\ result.got = 1

\* C7 (as stated): every operation, Erase included, puts a 5-byte header
\* on the wire.
C7_Original ==
  HeaderOver => Len(hdrOut) = 5

\* C7 (amended): Read, WriteBytes and WritePages send a 5-byte header on
\* the OUT endpoint; Erase sends a 1-byte command, the opcode 'Z' alone.
C7_HeaderLength ==
  HeaderOver =>
    /\ Len(hdrOut) = IF op = "Z" THEN 1 ELSE 5
    /\ moved.header = Len(hdrOut)
    /\ hdrOut[1] = CASE op = "R" -> 82 [] op = "W" -> 87
                     [] op = "P" -> 80 [] op = "Z" -> 90
    /\ wire[1] = <<"header", endpointOUT>>

C7_Witness ==
  /\ op = "Z"
  /\ phase = "status"
  /\ hdrOut = <<90>>

\* effective chunk size of the payload transfer in progress
ChunkSize ==
  IF op = "P" /\ pagesize # 0 THEN pagesize
  ELSE maxPacket[IF op = "R" THEN endpointIN ELSE endpointOUT]

Min(a, b) == IF a < b THEN a ELSE b

\* C8: when every chunk of the payload is moved in full, the k-th bulk
\* transfer starts at offset (k-1)c and asks for min(c, L - (k-1)c) bytes,
\* and the payload takes ceil(L / c) transfers; 3c + r bytes go in 4
\* chunks, and WritePages(0, 256 bytes) with page size 64 takes 4
\* transfers of 64 bytes.
C8_Chunks ==
  (DataOp /\ phase \in {"payload", "status"} /\ shorts.payload = 0) =>
    LET c == ChunkSize
        k == calls.payload
    IN
    /\ moved.payload = Min(k * c, dlen)
    /\ (phase = "payload" /\ k > 0) =>
         /\ lastReq.off = (k - 1) * c
         /\ lastReq.n = Min(c, dlen - (k - 1) * c)
    /\ (phase = "status" /\ calls.status = 0) =>
         /\ k = (dlen + c - 1) \div c
         /\ lastReq.off = (k - 1) * c
         /\ lastReq.n = IF dlen % c # 0 THEN dlen % c ELSE c
         /\ (dlen = 3 * c + 8) => (k = 4 /\ lastReq.n = 8)
         /\ (op = "P" /\ pagesize = 64 /\ dlen = 256) => (k = 4 /\ lastReq.n = 64)

C8_Witness ==
  /\ op = "P" /\ pagesize = 64
  /\ start = 3 /\ dlen = 200
  /\ phase = "status" /\ calls.status = 0
  /\ shorts.payload = 0
  /\ calls.payload = 4
  /\ lastReq.off = 192 /\ lastReq.n = 8

\* C9 (as stated): when the page size exceeds the OUT endpoint's maximum
\* packet size, WritePages fails before any bulk transfer, the command
\* header included.
C9_Claim ==
  result.kind = "invalid packet size" =>
    /\ Total(calls) = 0
    /\ hdrOut = <<>>

\* C10: a bulk transfer that fails ends the operation at once with that
\* error: no later phase has been started, and no bulk transfer follows
\* the failed one within the operation.
C10_Inv ==
  lastRet.code # "LIBUSB_SUCCESS" =>
    /\ Returned
    /\ result = [kind |-> "libusbError", code |-> lastRet.code,
                 expected |-> 0, got |-> 0]
    /\ lastReq.buf = "header" => (calls.payload = 0 /\ calls.status = 0 /\ verifies = 0)
    /\ lastReq.buf = "payload" => (calls.status = 0 /\ verifies = 0)

C10_Step ==
  /\ lastRet.code # "LIBUSB_SUCCESS" => (calls' = calls \/ calls' = NoCalls)
  /\ (lastRet'.code # "LIBUSB_SUCCESS" /\ calls' # calls) =>
       Total(calls') = Total(calls) + 1

C10_Abort == [] C10_Inv /\ [][C10_Step]_vars

C10_Witness ==
  /\ op = "W" /\ Returned
  /\ result.kind = "libusbError"
  /\ result.code = "LIBUSB_ERROR_TIMEOUT"
  /\ lastReq.buf = "payload"
  /\ calls.payload > 2

\* C11 .. C17: status readback, lifecycle and discovery

\* C11 (as stated): the status verification performs exactly one inbound
\* bulk transfer, of 2 bytes, whatever the transport does.
C11_Original ==
  (verifies = 1 /\ lastReq.buf = "status" /\ lastRet.code = "LIBUSB_SUCCESS") =>
    /\ calls.status = 1
    /\ lastReq.n = 2

\* C11 (amended): the status verification transfers on the IN endpoint
\* only, with the endpoint's default chunk size whatever the page size;
\* its first bulk transfer asks for 2 bytes and is the only one when the
\* transport delivers them in full; after a short transfer a further one
\* asks for the bytes still missing.
C11_Readback ==
  /\ (phase = "status" /\ calls.status = 0) =>
       /\ xf.ep = endpointIN
       /\ xf.len = 2
       /\ xf.n = maxPacket[endpointIN]
  /\ lastReq.buf = "status" =>
       /\ lastReq.ep = endpointIN
       /\ lastReq.n = 2 - lastReq.off
       /\ calls.status = 1 => (lastReq.off = 0 /\ lastReq.n = 2)
       /\ calls.status <= shorts.status + 1
       /\ shorts.status = 0 => calls.status = 1

C11_Witness ==
  /\ Returned /\ pagesize = 64
  /\ lastReq.buf = "status"
  /\ calls.status = 2
  /\ lastReq.off = 1 /\ lastReq.n = 1
  /\ result.kind = "nil"

\* C14: SetPageSize changes the page size and nothing else, and issues no
\* transfer; the page size is the chunk size of the payload of WritePages
\* only: every other buffer, and the payload of WritePages when the page
\* size is 0, is chunked by the endpoint's maximum packet size.
C14_Inv ==
  (phase # "idle" /\ calls[phase] = 0) =>
    xf.n = IF phase = "payload" /\ op = "P" /\ pagesize # 0
             THEN pagesize ELSE maxPacket[xf.ep]

C14_Step ==
  pagesize' # pagesize =>
    /\ phase = "idle"
    /\ UNCHANGED <<maxPacket, op, start, dlen, hdr, phase, xf, expected,
                   devStatus, stbuf, result, wire, hdrOut, calls, lastReq,
                   lastRet, moved, shorts, verifies, lvars, rvars, cvars>>

C14_PageSize == [] C14_Inv /\ [][C14_Step]_vars

C14_Witness ==
  /\ op = "W" /\ pagesize = 128
  /\ phase = "payload" /\ calls.payload = 0
  /\ maxPacket[endpointOUT] = 64
  /\ xf.n = 64

\* the calls of the last lifecycle function with the given name
CallsNamed(name) == { i \in DOMAIN usbLog : usbLog[i].call = name }

\* C12: Close releases the interface, then closes the handle, once, on
\* both outcomes of the release; it returns the release error if the
\* release failed and nil otherwise.
C12_Close ==
  lop = "Close" =>
    /\ Len(usbLog) = 2
    /\ usbLog[1].call = "libusb_release_interface"
    /\ usbLog[2].call = "libusb_close"
    /\ Cardinality(CallsNamed("libusb_close")) = 1
    /\ handle = "closed"
    /\ lret = IF usbLog[1].code = "LIBUSB_SUCCESS"
                THEN [kind |-> "nil", code |-> "LIBUSB_SUCCESS", expected |-> 0, got |-> 0]
                ELSE [kind |-> "libusbError", code |-> usbLog[1].code,
                      expected |-> 0, got |-> 0]

C12_Witness ==
  /\ lop = "Close"
  /\ usbLog[1].code = "LIBUSB_ERROR_NO_DEVICE"
  /\ lret.kind = "libusbError"
  /\ handle = "closed"

\* C13: Reset issues one reset on the handle and then pauses once, on
\* success and on failure; it returns the reset's error, nil on success.
C13_Reset ==
  lop = "Reset" =>
    /\ Len(usbLog) = 2
    /\ usbLog[1].call = "libusb_reset_device"
    /\ usbLog[2].call = "time.Sleep"
    /\ Cardinality(CallsNamed("time.Sleep")) = 1
    /\ Cardinality(CallsNamed("libusb_reset_device")) = 1
    /\ lret = IF usbLog[1].code = "LIBUSB_SUCCESS"
                THEN [kind |-> "nil", code |-> "LIBUSB_SUCCESS", expected |-> 0, got |-> 0]
                ELSE [kind |-> "libusbError", code |-> usbLog[1].code,
                      expected |-> 0, got |-> 0]

C13_Witness ==
  /\ lop = "Reset"
  /\ usbLog[1].code = "LIBUSB_ERROR_ACCESS"
  /\ usbLog[2].call = "time.Sleep"
  /\ lret.code = "LIBUSB_ERROR_ACCESS"

\* indices of the attached devices, up to n, that carry the programmer's
\* vendor and product identifiers
RECURSIVE Programmers(_)
Programmers(n) ==
  IF n = 0 THEN <<>>
  ELSE IF attached[n].idVendor = 1240 /\ attached[n].idProduct = 62669
    THEN Append(Programmers(n - 1), n)
  ELSE Programmers(n - 1)

WalkReturned == lop = "Walk" /\ ~walk.active

\* no transport call and no visitor call of the last function failed
AllCallsOK ==
  \A i \in DOMAIN usbLog : usbLog[i].code \in {"LIBUSB_SUCCESS", "nil"}

\* C15: when no descriptor read and no visit fails, Walk visits exactly
\* the matching devices, once each, in list order, each with an unopened
\* handle, and returns nil if there was one and "no devices found" if not.
C15_Walk ==
  (lop = "Walk" /\ AllCallsOK) =>
    /\ walk.active =>
         [k \in DOMAIN walk.visits |-> walk.visits[k].dev] = Programmers(walk.i - 1)
    /\ \A k \in DOMAIN walk.visits : walk.visits[k].handle = "nil"
    /\ WalkReturned =>
         /\ [k \in DOMAIN walk.visits |-> walk.visits[k].dev]
              = Programmers(Len(attached))
         /\ Cardinality(CallsNamed("fn")) = Len(Programmers(Len(attached)))
         /\ lret.kind = IF Programmers(Len(attached)) # <<>>
                          THEN "nil" ELSE "no devices found"

C15_Witness ==
  /\ WalkReturned /\ AllCallsOK
  /\ Len(attached) = 3
  /\ Programmers(3) = <<1, 3>>
  /\ Len(walk.visits) = 2
  /\ lret.kind = "nil"

\* C16: an error of the visitor ends Walk at once: no later device is
\* visited, the visitor's error is what Walk returns, and the device list
\* is freed before the return.
C16_VisitorError ==
  lop = "Walk" =>
    /\ \A i \in DOMAIN usbLog :
         (usbLog[i].call = "fn" /\ usbLog[i].code # "nil") =>
           /\ ~walk.active
           /\ i = Len(usbLog) - 1
           /\ usbLog[Len(usbLog)].call = "libusb_free_device_list"
           /\ walk.list = "freed"
           /\ lret = [kind |-> "visitor", code |-> usbLog[i].code,
                      expected |-> 0, got |-> 0]
           /\ walk.visits[Len(walk.visits)].dev = usbLog[i].dev
    /\ lret.kind = "visitor" =>
         /\ Len(usbLog) >= 2
         /\ usbLog[Len(usbLog) - 1].call = "fn"
         /\ usbLog[Len(usbLog) - 1].code = lret.code

C16_Witness ==
  /\ WalkReturned
  /\ Len(attached) = 3
  /\ Programmers(3) = <<2, 3>>
  /\ lret.kind = "visitor"
  /\ lret.code = "visitor error 2"
  /\ Len(walk.visits) = 1
  /\ walk.visits[1].dev = 2

\* C17: First and Open return nil with the handle open and the interface
\* claimed, or an error with no handle left open; First without a matching
\* device returns "no devices found", and after a failed claim the handle
\* just opened has been closed.
C17_OpenFirst ==
  lop \in {"First", "Open"} =>
    /\ \/ lret.kind = "nil" /\ handle = "open" /\ claimed
       \/ lret.kind \in {"libusbError", "no devices found"}
            /\ handle # "open" /\ ~claimed
    /\ (lop = "First" /\ Programmers(Len(attached)) = <<>>) =>
         lret.kind = "no devices found"
    /\ \A i \in DOMAIN usbLog :
         (usbLog[i].call = "libusb_claim_interface"
            /\ usbLog[i].code # "LIBUSB_SUCCESS") =>
           /\ i = 2 /\ Len(usbLog) = 3
           /\ usbLog[3].call = "libusb_close"
           /\ lret = [kind |-> "libusbError", code |-> usbLog[i].code,
                      expected |-> 0, got |-> 0]

C17_Witness ==
  /\ lop = "Open"
  /\ Len(usbLog) = 3
  /\ usbLog[2].code = "LIBUSB_ERROR_ACCESS"
  /\ handle = "closed"
  /\ lret.kind = "libusbError"

\* the read of the round trip has returned nil
RoundTripped == rt.step = 3 /\ Returned /\ result.kind = "nil"

\* C18: after Erase, writing B at A with WriteBytes or with WritePages and
\* then reading len(B) bytes from A returns exactly B, for every valid
\* (A, B) including A = 0, len(B) = 65536: when the read returns nil the
\* buffer holds bytes 0 .. len(B)-1 of B at indexes 0 .. len(B)-1, on either
\* write path, and the device holds B at A .. A+len(B)-1.
C18_RoundTrip ==
  /\ RoundTripped => rbuf = <<Run(0, 0, rt.L)>>
  /\ rt.step >= 2 /\ result.kind = "nil" /\ (rt.step = 2 => Returned)
       => mem = <<Run(rt.A, 0, rt.L)>>

\* the full address space written by pages and read back, with a short
\* transfer in the read
C18_Witness ==
  /\ RoundTripped
  /\ rt.A = 0 /\ rt.L = MaxBytes /\ rt.path = "P"
  /\ shorts.payload > 0

\* the verify command has returned after a Read that returned nil
Verified == cmd.name = "verify" /\ cmd.pc = "done" /\ op = "R" /\ result.kind = "nil"

\* number of bytes verify is asked to verify
VerifyCount == CountOrLen(cmd.flag, Len(cmd.file))

\* outcome of comparing the first n bytes of the file with the device data
FirstN(file, data, n) ==
  LET bad == { i \in 1..n : data[i] # file[i] } IN
  IF bad = {} THEN Verdict("nil", 0)
  ELSE Verdict("mismatch", (CHOOSE j \in bad : \A m \in bad : j <= m) - 1)

\* C19: verify with -count n >= 0 reads VerifyCount bytes (n when
\* 0 < n < len(file), len(file) when n = 0 or n > len(file)) and returns
\* success when they equal the first VerifyCount bytes of the file, else a
\* mismatch error naming the first differing index.
C19_Claim ==
  Verified /\ cmd.flag >= 0
    => /\ dlen = VerifyCount
       /\ Len(cmd.data) = VerifyCount
       /\ cmd.ret = FirstN(cmd.file, cmd.data, VerifyCount)

\* the device methods a command calls before it returns
DataOps == {"Read", "WriteBytes", "WritePages"}

Count(log, name) == Cardinality({ i \in DOMAIN log : log[i] = name })

\* the data operation of the command was called and returned an error
DataOpFailed ==
  /\ \E i \in DOMAIN devlog : devlog[i] \in DataOps
  /\ result.kind # "nil"

\* C20: once the device is opened, dump, verify and write call Reset exactly
\* when the data operation returned an error, after it and before the command
\* returns that error, never after a successful data operation; Close is
\* called exactly once, as the last device call, on every return path, and
\* neither is called before the command returns.
C20_ResetClose ==
  /\ cmd.pc = "done" =>
       /\ Count(devlog, "Close") = 1
       /\ devlog[Len(devlog)] = "Close"
       /\ Count(devlog, "Reset") = (IF DataOpFailed THEN 1 ELSE 0)
       /\ DataOpFailed =>
            /\ devlog[Len(devlog) - 1] = "Reset"
            /\ devlog[Len(devlog) - 2] \in DataOps
            /\ cmd.ret = Error(result)
            /\ handle = "closed"
       /\ ~DataOpFailed => cmd.ret.kind # "error"
  /\ cmd.pc # "done" => Count(devlog, "Close") = 0 /\ Count(devlog, "Reset") = 0

\* write with a page size has returned the transport error of WritePages
C20_Witness ==
  /\ cmd.name = "write" /\ cmd.pc = "done"
  /\ devlog = <<"SetPageSize", "WritePages", "Reset", "Close">>
  /\ result.kind = "libusbError"
  /\ calls.payload > 0

\* the command asks for bytes beyond the last address
BeyondEnd == cmd.count >= 0 /\ cmd.start + cmd.count > MaxBytes

\* the data operation of the command has been entered
Entered == cmd.pc \in {"op", "done"} /\ op # "none"

\* C21: in dump, verify and write every -start/-count combination with
\* start + count > 65536, including any start >= 65536, ends in a validation
\* failure rather than wrapping: no bulk transfer is issued and the data
\* operation returns "no data" or "too much data".
C21_Claim ==
  Entered /\ BeyondEnd
    => /\ Total(calls) = 0
       /\ phase = "idle"
       /\ result.kind \in ValidationErrors

\* a transfer loop is running
Looping == phase \in {"header", "payload", "status"}

\* C22: every chunked transfer eventually returns, with success or with an
\* error, over every transport whose bulk transfer calls each return, also
\* when the transport reports success with 0 bytes transferred.
C22_Claim == [](Looping => <>(phase = "idle"))

\* length of the buffer of a transfer
BufLen(buf) == IF buf = "header" THEN Len(hdr) ELSE IF buf = "payload" THEN dlen ELSE 2

\* chunk size of a transfer
Chunk(buf) == IF buf = "payload" THEN ChunkSize ELSE maxPacket[xf.ep]

\* C23: over a transport that never reports more bytes than requested, each
\* bulk transfer requests min(chunk size, bytes remaining) bytes at the
\* current offset, offset + requested never exceeds the buffer length, the
\* offset never decreases, and a transfer that succeeds ends with the offset
\* at the buffer length.
C23_Inv ==
  /\ Looping =>
       /\ xf.off >= 0 /\ xf.len > 0
       /\ xf.off + xf.len = BufLen(phase)
       /\ Clamp(xf.n, xf.len) = Min(Chunk(phase), xf.len)
       /\ xf.off + Clamp(xf.n, xf.len) <= BufLen(phase)
  /\ (op # "none" /\ lastReq.buf # "none") =>
       /\ lastReq.off >= 0
       /\ lastReq.n >= 1
       /\ lastReq.off + lastReq.n <= BufLen(lastReq.buf)
       /\ lastRet.transferred <= lastReq.n

C23_Step ==
  /\ (Looping /\ phase' = phase /\ op' = op) => xf'.off >= xf.off
  /\ (Looping /\ phase' # phase /\ lastRet'.code = "LIBUSB_SUCCESS") =>
       /\ lastReq'.buf = phase
       /\ lastReq'.off + lastRet'.transferred = BufLen(phase)

C23_Bounds == [] C23_Inv /\ [][C23_Step]_vars

\* a page write goes on from an offset that a short transfer left unaligned
C23_Witness ==
  /\ op = "P" /\ phase = "payload" /\ pagesize = 64
  /\ xf.off = 63
  /\ lastRet = [code |-> "LIBUSB_SUCCESS", transferred |-> 63]

\* transport calls that take the handle of the device
NeedsHandle ==
  {"libusb_release_interface", "libusb_close", "libusb_reset_device"}

\* a bulk transfer is issued in this step
BulkIssued == calls' # calls /\ Total(calls') > 0

\* Close or Reset is called in this step and reaches the transport
LifecycleIssued ==
  /\ lop' \in {"Close", "Reset"}
  /\ <<lop', usbLog', lret'>> # <<lop, usbLog, lret>>
  /\ \E i \in DOMAIN usbLog' : usbLog'[i].call \in NeedsHandle

\* C24: in every sequence of public calls on one Device a transport call
\* that needs a handle (bulk transfer, reset, release, close) is issued only
\* while the handle is open: before Open and after Close no such call
\* reaches the transport, and a second Close does not close the handle again.
C24_Step == (BulkIssued \/ LifecycleIssued) => handle = "open"

C24_Claim == [][C24_Step]_vars

====
